---- MODULE Spec2Model ----
(***************************************************************************)
(* Hybrid Logical Clock of pg_hlc (src/src/lib.rs).                        *)
(*                                                                         *)
(* Instants (chrono DateTime<Utc>) are whole seconds since the Unix epoch. *)
(* A wall-time string (the &str arguments and HlcTimestamp.date_time) is a *)
(* record [form, inst]: its textual form and the instant it denotes;       *)
(* form "bad" is text that parse_from_rfc3339 rejects.                     *)
(* Option<T> is a sequence of length at most one: <<>> is None, <<x>> is   *)
(* Some(x).                                                                *)
(***************************************************************************)
EXTENDS Integers, Sequences, FiniteSets, TLC

\* ------------------------------------------------------------ constants
MAX_COUNTER == 65535
MAX_DRIFT_MINUTES == 1
\* chrono: num_minutes() is num_seconds() / 60, truncated toward zero
SecondsPerMinute == 60
\* HlcState.counter and HlcTimestamp.counter are i32
I32Max == 2147483647
I32Min == (-2147483647) - 1

\* ------------------------------------------------------------ bounds
\* Increment is followed while the counter it leaves is at most MaxTick, or is
\* MAX_COUNTER or more, or is the i32 wrap
MaxTick == 2
\* calls each concurrent caller makes
MaxCalls == 1

\* ------------------------------------------------------------ inputs
NodeIds == {"n1", "n2"}
\* node_id.cmp: byte order of the strings
NodeRank(n) == IF n = "n1" THEN 1 ELSE 2
\* node ids the calls of the sequential runs are made for
LocalIds == {"n1"}
\* the epoch, 90 s and 1 h after it
Instants == {0, 90, 3600}
\* what Utc::now() reads when a call is given no wall time
NowReadings == {3600}
\* counters of remote timestamps: HlcTimestamp::parse takes any i32 hex >= 0
RemoteCounters == {0, 3, MAX_COUNTER, I32Max}
BadStr == [form |-> "bad", inst |-> 0]
Str(t, f) == [form |-> f, inst |-> t]

\* ------------------------------------------------------------ values
Ok(x) == [ok |-> TRUE, val |-> x]
Err == [ok |-> FALSE, val |-> 0]

\* DateTime::parse_from_rfc3339(s), then .with_timezone(&Utc)
parse_from_rfc3339(s) == IF s.form = "bad" THEN Err ELSE Ok(s.inst)

\* DateTime<Utc>::to_rfc3339(): always the "+00:00" form
to_rfc3339(t) == Str(t, "+00:00")

\* HlcState::new
HlcState_new(node_id) == [date_time |-> 0, counter |-> 0, node_id |-> node_id]

\* HlcTimestamp::from_state
from_state(state) ==
    [date_time |-> to_rfc3339(state.date_time),
     counter   |-> state.counter,
     node_id   |-> state.node_id]

\* TimeDelta::num_minutes of a duration of d seconds (truncates toward zero)
num_minutes(d) ==
    IF d >= 0 THEN d \div SecondsPerMinute ELSE -((-d) \div SecondsPerMinute)

\* i32 addition of 1: overflow_checks (debug build) panics, otherwise wraps
add_one(c, overflow_checks) ==
    IF c = I32Max
    THEN (IF overflow_checks THEN Err ELSE Ok(I32Min))
    ELSE Ok(c + 1)

\* impl Ord for HlcTimestamp: -1, 0, 1
cmp_int(a, b) == IF a < b THEN -1 ELSE IF a > b THEN 1 ELSE 0
date_or_epoch(s) == IF parse_from_rfc3339(s).ok THEN parse_from_rfc3339(s).val ELSE 0
cmp(self, other) ==
    LET self_dt  == date_or_epoch(self.date_time)
        other_dt == date_or_epoch(other.date_time)
    IN  IF cmp_int(self_dt, other_dt) # 0 THEN cmp_int(self_dt, other_dt)
        ELSE IF cmp_int(self.counter, other.counter) # 0
             THEN cmp_int(self.counter, other.counter)
             ELSE cmp_int(NodeRank(self.node_id), NodeRank(other.node_id))

\* ------------------------------------------------------------ text
\* A string is the sequence of the pieces its '-' characters separate, so that
\* joining with '-' is concatenation and rsplitn(3, '-') takes pieces off the
\* right end. 2024-01-15T10:30:00.123Z, whose whole seconds are ExampleInstant:
ExampleInstant == 1705314600
\* the node ids a timestamp value can carry, and the pieces of each
TextNodeIds == {"n1", "n2", "node-alpha"}
node_text(n) == IF n = "node-alpha" THEN <<"node", "alpha">> ELSE <<n>>
\* the date_time strings of the text calls: instant and way of writing it
TextDates ==
    {Str(0, "Z"), Str(0, "+00:00"), Str(0, "-05:00"), Str(90, "Z"),
     Str(90, "+00:00"), Str(ExampleInstant, ".123Z")}
date_text(s) ==
    CASE s = Str(0, "Z")                   -> <<"1970", "01", "01T00:00:00Z">>
      [] s = Str(0, "+00:00")              -> <<"1970", "01", "01T00:00:00+00:00">>
      [] s = Str(0, "-05:00")              -> <<"1969", "12", "31T19:00:00", "05:00">>
      [] s = Str(90, "Z")                  -> <<"1970", "01", "01T00:01:30Z">>
      [] s = Str(90, "+00:00")             -> <<"1970", "01", "01T00:01:30+00:00">>
      [] s = Str(ExampleInstant, ".123Z")  -> <<"2024", "01", "15T10:30:00.123Z">>
      [] OTHER                             -> <<"not a date">>
\* the String that holds the given pieces: a date_time of TextDates if the
\* pieces are its own, text that parse_from_rfc3339 rejects otherwise
text_date(pieces) ==
    IF \E s \in TextDates : date_text(s) = pieces
    THEN CHOOSE s \in TextDates : date_text(s) = pieces
    ELSE BadStr

\* format!("{:04X}", counter): upper-case hex, at least four digits, an i32
\* below zero in two's complement
hex04(counter) ==
    CASE counter = 0          -> "0000"
      [] counter = 1          -> "0001"
      [] counter = 26         -> "001A"
      [] counter = MAX_COUNTER -> "FFFF"
      [] counter = MAX_COUNTER + 1 -> "10000"
      [] counter = I32Max     -> "7FFFFFFF"
      [] counter = I32Min     -> "80000000"
      [] OTHER                -> "????"
\* i32::from_str_radix(piece, 16): any piece of hex digits that fits an i32,
\* the pieces of a date among them
from_str_radix(piece) ==
    CASE piece = "0000"     -> Ok(0)
      [] piece = "0001"     -> Ok(1)
      [] piece = "01"       -> Ok(1)
      [] piece = "12"       -> Ok(18)
      [] piece = "001A"     -> Ok(26)
      [] piece = "1969"     -> Ok(6505)
      [] piece = "1970"     -> Ok(6512)
      [] piece = "2024"     -> Ok(8228)
      [] piece = "FFFF"     -> Ok(MAX_COUNTER)
      [] piece = "10000"    -> Ok(MAX_COUNTER + 1)
      [] piece = "7FFFFFFF" -> Ok(I32Max)
      [] OTHER              -> Err

\* HlcTimestamp::parse: parts[0] is the last piece, parts[1] the one before it,
\* parts[2] all that is left of them
parse(timestamp) ==
    LET n         == Len(timestamp)
        node_id   == timestamp[n]
        counter   == from_str_radix(timestamp[n - 1])
        date_time == text_date(SubSeq(timestamp, 1, n - 2))
    IN  IF n < 3 THEN Err
        ELSE IF ~counter.ok THEN Err
        ELSE IF ~parse_from_rfc3339(date_time).ok THEN Err
        ELSE Ok([date_time |-> date_time, counter |-> counter.val,
                 node_id |-> node_id])

\* HlcTimestamp::to_string
to_string(self) ==
    date_text(self.date_time) \o <<hex04(self.counter)>> \o node_text(self.node_id)

\* ------------------------------------------------------------ the store
\* GLOBAL_HLCS is a function from the keys present to their HlcState.
get_or_create_hlc_state(h, node_id) ==
    IF node_id \in DOMAIN h
    THEN [hlcs |-> h, state |-> h[node_id]]
    ELSE [hlcs  |-> [k \in (DOMAIN h) \cup {node_id} |->
                        IF k = node_id THEN HlcState_new(node_id) ELSE h[k]],
          state |-> HlcState_new(node_id)]

update_hlc_state(h, node_id, state) ==
    [k \in (DOMAIN h) \cup {node_id} |-> IF k = node_id THEN state ELSE h[k]]

\* mutant: the whole map is cleared
remove_all(h, node_id) == << >>

remove(h, node_id) == [k \in (DOMAIN h) \ {node_id} |-> h[k]]

\* ------------------------------------------------------------ operations
\* What a call gives back: the store after it, Ok or the error kind with its
\* payload, and the HlcTimestamp returned (None on an error).
Res(h, status, payload, ts) ==
    [hlcs |-> h, status |-> status, payload |-> payload, ts |-> ts]

\* `if let Some(wt) = wall_time { parse_from_rfc3339(wt)? } else { Utc::now() }`
\* with now the reading Utc::now() would give
read_wall_time(wall_time, now) ==
    IF wall_time = <<>> THEN Ok(now) ELSE parse_from_rfc3339(wall_time[1])

hlc_zero(h, node_id) ==
    LET state == [date_time |-> 0, counter |-> 0, node_id |-> node_id]
    IN  Res(update_hlc_state(h, node_id, state), "ok", 0, <<from_state(state)>>)

hlc_from_date(h, date_time, node_id) ==
    LET dt == parse_from_rfc3339(date_time)
        state == [date_time |-> dt.val, counter |-> 0, node_id |-> node_id]
    IN  IF ~dt.ok THEN Res(h, "InvalidTimestamp", 0, <<>>)
        ELSE Res(update_hlc_state(h, node_id, state), "ok", 0, <<from_state(state)>>)

hlc_now(h, node_id, now) ==
    LET state == [date_time |-> now, counter |-> 0, node_id |-> node_id]
    IN  Res(update_hlc_state(h, node_id, state), "ok", 0, <<from_state(state)>>)

\* mutant: the state's wall time is kept, the later observed one never taken
date_time_new_kept(current_state, wall_time) == current_state.date_time

\* lines 227-231
date_time_new_of(current_state, wall_time) ==
    IF wall_time > current_state.date_time THEN wall_time
    ELSE current_state.date_time

\* mutant: the counter is carried over without the tick
counter_new_no_tick(current_state, date_time_new, overflow_checks) ==
    IF date_time_new = current_state.date_time
    THEN Ok(current_state.counter)
    ELSE Ok(0)

\* lines 233-237
counter_new_of(current_state, date_time_new, overflow_checks) ==
    IF date_time_new = current_state.date_time
    THEN add_one(current_state.counter, overflow_checks)
    ELSE Ok(0)

\* `drift.num_minutes() > MAX_DRIFT_MINUTES` for a drift of d seconds
drift_exceeded(d) == num_minutes(d) > MAX_DRIFT_MINUTES

\* mutant: the counter is refused one tick too late
increment_state_late_check(current_state, wall_time, overflow_checks) ==
    LET date_time_new == date_time_new_of(current_state, wall_time)
        counter_new   == counter_new_of(current_state, date_time_new, overflow_checks)
        drift         == date_time_new - wall_time
    IN  IF ~counter_new.ok
        THEN [status |-> "panic", payload |-> 0, state |-> current_state]
        ELSE IF drift_exceeded(drift)
        THEN [status |-> "ClockDrift", payload |-> num_minutes(drift),
              state |-> current_state]
        ELSE IF counter_new.val > MAX_COUNTER + 1
        THEN [status |-> "Overflow", payload |-> counter_new.val,
              state |-> current_state]
        ELSE [status |-> "ok", payload |-> 0,
              state |-> [current_state EXCEPT !.date_time = date_time_new,
                                              !.counter = counter_new.val]]

\* lines 226-256 on the copy of the state that get_or_create_hlc_state gave
increment_state(current_state, wall_time, overflow_checks) ==
    LET date_time_new == date_time_new_of(current_state, wall_time)
        counter_new   == counter_new_of(current_state, date_time_new, overflow_checks)
        drift         == date_time_new - wall_time
    IN  IF ~counter_new.ok
        THEN [status |-> "panic", payload |-> 0, state |-> current_state]
        ELSE IF drift_exceeded(drift)
        THEN [status |-> "ClockDrift", payload |-> num_minutes(drift),
              state |-> current_state]
        ELSE IF counter_new.val > MAX_COUNTER
        THEN [status |-> "Overflow", payload |-> counter_new.val,
              state |-> current_state]
        ELSE [status |-> "ok", payload |-> 0,
              state |-> [current_state EXCEPT !.date_time = date_time_new,
                                              !.counter = counter_new.val]]

\* mutant: the ticked counter is stored before it is checked against MAX_COUNTER
hlc_increment_store_first(h, node_id, wall_time, now, overflow_checks) ==
    LET g  == get_or_create_hlc_state(h, node_id)
        wt == read_wall_time(wall_time, now)
        r  == increment_state(g.state, wt.val, overflow_checks)
    IN  IF ~wt.ok THEN Res(g.hlcs, "InvalidTimestamp", 0, <<>>)
        ELSE IF r.status = "Overflow"
        THEN Res(update_hlc_state(g.hlcs, node_id,
                                  [g.state EXCEPT !.counter = r.payload]),
                 r.status, r.payload, <<>>)
        ELSE IF r.status # "ok" THEN Res(g.hlcs, r.status, r.payload, <<>>)
        ELSE Res(update_hlc_state(g.hlcs, node_id, r.state), "ok", 0,
                 <<from_state(r.state)>>)

hlc_increment(h, node_id, wall_time, now, overflow_checks) ==
    LET g  == get_or_create_hlc_state(h, node_id)
        wt == read_wall_time(wall_time, now)
        r  == increment_state(g.state, wt.val, overflow_checks)
    IN  IF ~wt.ok THEN Res(g.hlcs, "InvalidTimestamp", 0, <<>>)
        ELSE IF r.status # "ok" THEN Res(g.hlcs, r.status, r.payload, <<>>)
        ELSE Res(update_hlc_state(g.hlcs, node_id, r.state), "ok", 0,
                 <<from_state(r.state)>>)

\* mutant: an equal counter no longer counts as dominated
dominated_strict(remote_dt, remote_counter, local_state) ==
    \/ remote_dt < local_state.date_time
    \/ (remote_dt = local_state.date_time /\ remote_counter < local_state.counter)

\* lines 274-275
dominated(remote_dt, remote_counter, local_state) ==
    \/ remote_dt < local_state.date_time
    \/ (remote_dt = local_state.date_time /\ remote_counter <= local_state.counter)

\* mutant: the remote's node id is taken over with its time and counter
apply_remote_identity(local_state, remote_dt, remote) ==
    [local_state EXCEPT !.date_time = remote_dt, !.counter = remote.counter,
                        !.node_id = remote.node_id]

\* lines 295-297
apply_remote(local_state, remote_dt, remote) ==
    [local_state EXCEPT !.date_time = remote_dt, !.counter = remote.counter]

\* mutant: the drift check runs before the node id check
merge_state_drift_first(local_state, local_node_id, remote, wall_time) ==
    LET remote_dt == parse_from_rfc3339(remote.date_time)
        drift     == remote_dt.val - wall_time
    IN  IF ~remote_dt.ok
        THEN [status |-> "InvalidTimestamp", payload |-> 0, write |-> FALSE,
              state |-> local_state]
        ELSE IF dominated(remote_dt.val, remote.counter, local_state)
        THEN [status |-> "ok", payload |-> 0, write |-> FALSE, state |-> local_state]
        ELSE IF drift_exceeded(drift)
        THEN [status |-> "ClockDrift", payload |-> num_minutes(drift),
              write |-> FALSE, state |-> local_state]
        ELSE IF local_node_id = remote.node_id
        THEN [status |-> "DuplicateNode", payload |-> 0, write |-> FALSE,
              state |-> local_state]
        ELSE [status |-> "ok", payload |-> 0, write |-> TRUE,
              state |-> apply_remote(local_state, remote_dt.val, remote)]

\* lines 271-300 on the copy of the state that get_or_create_hlc_state gave
merge_state(local_state, local_node_id, remote, wall_time) ==
    LET remote_dt == parse_from_rfc3339(remote.date_time)
        drift     == remote_dt.val - wall_time
    IN  IF ~remote_dt.ok
        THEN [status |-> "InvalidTimestamp", payload |-> 0, write |-> FALSE,
              state |-> local_state]
        ELSE IF dominated(remote_dt.val, remote.counter, local_state)
        THEN [status |-> "ok", payload |-> 0, write |-> FALSE, state |-> local_state]
        ELSE IF local_node_id = remote.node_id
        THEN [status |-> "DuplicateNode", payload |-> 0, write |-> FALSE,
              state |-> local_state]
        ELSE IF drift_exceeded(drift)
        THEN [status |-> "ClockDrift", payload |-> num_minutes(drift),
              write |-> FALSE, state |-> local_state]
        ELSE [status |-> "ok", payload |-> 0, write |-> TRUE,
              state |-> apply_remote(local_state, remote_dt.val, remote)]

hlc_merge(h, local_node_id, remote, wall_time, now) ==
    LET g  == get_or_create_hlc_state(h, local_node_id)
        wt == read_wall_time(wall_time, now)
        r  == merge_state(g.state, local_node_id, remote, wt.val)
    IN  IF ~wt.ok THEN Res(g.hlcs, "InvalidTimestamp", 0, <<>>)
        ELSE IF r.status # "ok" THEN Res(g.hlcs, r.status, r.payload, <<>>)
        ELSE IF ~r.write THEN Res(g.hlcs, "ok", 0, <<from_state(r.state)>>)
        ELSE Res(update_hlc_state(g.hlcs, local_node_id, r.state), "ok", 0,
                 <<from_state(r.state)>>)

hlc_parse(timestamp) == parse(timestamp)

hlc_to_string(hlc) == to_string(hlc)

hlc_reset(h, node_id) == Res(remove(h, node_id), "ok", 0, <<>>)

hlc_get_state(h, node_id) ==
    LET g == get_or_create_hlc_state(h, node_id)
    IN  Res(g.hlcs, "ok", 0, <<from_state(g.state)>>)

\* `left == right` is the derived PartialEq: the three fields, date_time as text
eq(self, other) ==
    /\ self.date_time = other.date_time
    /\ self.counter = other.counter
    /\ self.node_id = other.node_id

hlc_compare(left, right) == cmp(left, right)
hlc_lt(left, right) == cmp(left, right) = -1
hlc_gt(left, right) == cmp(left, right) = 1
hlc_eq(left, right) == eq(left, right)
hlc_lte(left, right) == cmp(left, right) # 1
hlc_gte(left, right) == cmp(left, right) # -1

\* unwrap_or_else(|_| hlc_now(node_id)): a panic is not an Err and passes through;
\* now2 is the reading hlc_now takes after the failed call
hlc_increment_simple(h, node_id, now, now2, overflow_checks) ==
    LET r == hlc_increment(h, node_id, <<>>, now, overflow_checks)
    IN  IF r.status \in {"ok", "panic"} THEN r ELSE hlc_now(r.hlcs, node_id, now2)

hlc_merge_simple(h, local_node_id, remote, now, now2) ==
    LET r == hlc_merge(h, local_node_id, remote, <<>>, now)
    IN  IF r.status \in {"ok", "panic"} THEN r ELSE hlc_now(r.hlcs, local_node_id, now2)

\* ------------------------------------------------------------ state
VARIABLES
    hlcs,       \* GLOBAL_HLCS: node id -> HlcState, for the keys present
    last,       \* the call that ran last: its arguments, the store it found and
                \* what it gave back
    returned,   \* per node, the HlcTimestamp returned last (None at start, after Reset)
    run,        \* per node, the wall time of the successful Increment that was the
                \* last call on it (None when the last call was anything else)
    pc,         \* per concurrent caller, its position in hlc_increment / hlc_merge
    call,       \* per concurrent caller, the arguments of its call
    local,      \* per concurrent caller, its copy of the state (and the result)
    calls,      \* per concurrent caller, the calls it has started
    lock        \* holder of the GLOBAL_HLCS mutex (None when free)

vars == <<hlcs, last, returned, run, pc, call, local, calls, lock>>
seqVars == <<last, returned, run>>
concVars == <<pc, call, local, calls, lock>>

Threads == {"t1", "t2"}

\* arguments: a well-formed wall time, None (Utc::now() is read), malformed text
WallArgs == {<<Str(t, "Z")>> : t \in Instants} \cup {<<>>, <<BadStr>>}
DateArgs == {Str(t, "Z") : t \in Instants} \cup {BadStr}
\* remote timestamps as another node's from_state made them, counters as
\* HlcTimestamp::parse accepts them
Remotes ==
    {[date_time |-> to_rfc3339(t), counter |-> c, node_id |-> n] :
        t \in Instants, c \in RemoteCounters, n \in NodeIds}

\* counters Increment is followed to
InBounds(c) == (c >= 0 /\ c <= MaxTick) \/ c >= MAX_COUNTER \/ c = I32Min
ResInBounds(r, node_id) ==
    node_id \in DOMAIN r.hlcs => InBounds(r.hlcs[node_id].counter)

NoCall ==
    [op |-> "none", node |-> "n1", wall |-> <<>>, remote |-> <<>>, status |-> "ok",
     payload |-> 0, ts |-> <<>>, pre |-> <<>>, prevRet |-> <<>>, prevRun |-> <<>>,
     inner |-> "none", before |-> << >>]

\* a concurrent caller's arguments, and its locals: the copy of the state it
\* read, the state it computed, and what it returned
NoArgs == [op |-> "none", node |-> "n1", wall |-> <<>>, remote |-> <<>>]
NoLocal == [state |-> <<>>, new |-> <<>>, status |-> "none", payload |-> 0, ts |-> <<>>]

Entry(h, node_id) == IF node_id \in DOMAIN h THEN <<h[node_id]>> ELSE <<>>

Init ==
    /\ hlcs = << >>
    /\ last = NoCall
    /\ returned = [n \in LocalIds |-> <<>>]
    /\ run = [n \in LocalIds |-> <<>>]
    /\ pc = [t \in Threads |-> "off"]
    /\ call = [t \in Threads |-> NoArgs]
    /\ local = [t \in Threads |-> NoLocal]
    /\ calls = [t \in Threads |-> 0]
    /\ lock = <<>>

\* one sequential call: op on node with the wall time it used (None when it read
\* none or could not parse it), the remote given, and its outcome r
Step(op, node, wall, remote, r, inner) ==
    /\ hlcs' = r.hlcs
    /\ last' = [op |-> op, node |-> node, wall |-> wall, remote |-> remote,
                status |-> r.status, payload |-> r.payload, ts |-> r.ts,
                pre |-> Entry(hlcs, node), prevRet |-> returned[node],
                prevRun |-> run[node], inner |-> inner, before |-> hlcs]
    /\ returned' = [returned EXCEPT ![node] =
                        IF op = "Reset" THEN <<>>
                        ELSE IF r.ts # <<>> THEN r.ts ELSE @]
    /\ run' = [run EXCEPT ![node] =
                        IF op = "Increment" /\ r.status = "ok"
                        THEN wall ELSE <<>>]

\* the wall time a call used
Used(wall_time, now) ==
    LET wt == read_wall_time(wall_time, now) IN IF wt.ok THEN <<wt.val>> ELSE <<>>

Zero ==
    \E n \in LocalIds :
        LET r == hlc_zero(hlcs, n)
        IN  /\ Step("Zero", n, <<>>, <<>>, r, "none")
            /\ UNCHANGED concVars

FromDate ==
    \E n \in LocalIds, d \in DateArgs :
        LET r == hlc_from_date(hlcs, d, n)
        IN  /\ Step("FromDate", n, Used(<<d>>, 0), <<>>, r, "none")
            /\ UNCHANGED concVars

Now ==
    \E n \in LocalIds, now \in Instants :
        LET r == hlc_now(hlcs, n, now)
        IN  /\ Step("Now", n, <<now>>, <<>>, r, "none")
            /\ UNCHANGED concVars

Increment ==
    \E n \in LocalIds, wt \in WallArgs, now \in NowReadings, oc \in BOOLEAN :
            LET r == hlc_increment(hlcs, n, wt, now, oc)
            IN  /\ ResInBounds(r, n)
                /\ Step("Increment", n, Used(wt, now), <<>>, r, "none")
                /\ UNCHANGED concVars

Merge ==
    \E n \in LocalIds, remote \in Remotes, wt \in WallArgs, now \in NowReadings :
            LET r == hlc_merge(hlcs, n, remote, wt, now)
            IN  /\ Step("Merge", n, Used(wt, now), <<remote>>, r, "none")
                /\ UNCHANGED concVars

GetState ==
    \E n \in LocalIds :
        LET r == hlc_get_state(hlcs, n)
        IN  /\ Step("GetState", n, <<>>, <<>>, r, "none")
            /\ UNCHANGED concVars

Reset ==
    \E n \in LocalIds :
        LET r == hlc_reset(hlcs, n)
        IN  /\ Step("Reset", n, <<>>, <<>>, r, "none")
            /\ UNCHANGED concVars

\* The wrappers read Utc::now() in the call they wrap and again in the hlc_now
\* they fall back to; the two readings fall in the same second.
IncrementSimple ==
    \E n \in LocalIds, now \in Instants, oc \in BOOLEAN :
        LET r == hlc_increment_simple(hlcs, n, now, now, oc)
        IN  /\ ResInBounds(r, n)
            /\ Step("IncrementSimple", n, <<now>>, <<>>, r,
                    hlc_increment(hlcs, n, <<>>, now, oc).status)
            /\ UNCHANGED concVars

MergeSimple ==
    \E n \in LocalIds, remote \in Remotes, now \in Instants :
        LET r == hlc_merge_simple(hlcs, n, remote, now, now)
        IN  /\ Step("MergeSimple", n, <<now>>, <<remote>>, r,
                    hlc_merge(hlcs, n, remote, <<>>, now).status)
            /\ UNCHANGED concVars

Next ==
    \/ Zero
    \/ FromDate
    \/ Now
    \/ Increment
    \/ Merge
    \/ GetState
    \/ Reset
    \/ IncrementSimple
    \/ MergeSimple

Spec == Init /\ [][Next]_vars

\* ------------------------------------------------------------ two stored nodes
\* The same sequential calls made for either node id, over a narrower range of
\* arguments: the epoch and one hour after it, counters 0 and MAX_COUNTER.
TwoInstants == {0, 3600}
TwoWallArgs == {<<Str(t, "Z")>> : t \in TwoInstants} \cup {<<>>, <<BadStr>>}
TwoDateArgs == {Str(t, "Z") : t \in TwoInstants} \cup {BadStr}
TwoRemotes ==
    {[date_time |-> to_rfc3339(t), counter |-> c, node_id |-> n] :
        t \in TwoInstants, c \in {0, MAX_COUNTER}, n \in NodeIds}

InitTwo ==
    /\ hlcs = << >>
    /\ last = NoCall
    /\ returned = [n \in NodeIds |-> <<>>]
    /\ run = [n \in NodeIds |-> <<>>]
    /\ pc = [t \in Threads |-> "off"]
    /\ call = [t \in Threads |-> NoArgs]
    /\ local = [t \in Threads |-> NoLocal]
    /\ calls = [t \in Threads |-> 0]
    /\ lock = <<>>

TwoZero ==
    \E n \in NodeIds :
        LET r == hlc_zero(hlcs, n)
        IN  /\ Step("Zero", n, <<>>, <<>>, r, "none")
            /\ UNCHANGED concVars

TwoFromDate ==
    \E n \in NodeIds, d \in TwoDateArgs :
        LET r == hlc_from_date(hlcs, d, n)
        IN  /\ Step("FromDate", n, Used(<<d>>, 0), <<>>, r, "none")
            /\ UNCHANGED concVars

TwoNow ==
    \E n \in NodeIds, now \in TwoInstants :
        LET r == hlc_now(hlcs, n, now)
        IN  /\ Step("Now", n, <<now>>, <<>>, r, "none")
            /\ UNCHANGED concVars

TwoIncrement ==
    \E n \in NodeIds, wt \in TwoWallArgs, now \in NowReadings, oc \in BOOLEAN :
        LET r == hlc_increment(hlcs, n, wt, now, oc)
        IN  /\ ResInBounds(r, n)
            /\ Step("Increment", n, Used(wt, now), <<>>, r, "none")
            /\ UNCHANGED concVars

TwoMerge ==
    \E n \in NodeIds, remote \in TwoRemotes, wt \in TwoWallArgs, now \in NowReadings :
        LET r == hlc_merge(hlcs, n, remote, wt, now)
        IN  /\ Step("Merge", n, Used(wt, now), <<remote>>, r, "none")
            /\ UNCHANGED concVars

TwoGetState ==
    \E n \in NodeIds :
        LET r == hlc_get_state(hlcs, n)
        IN  /\ Step("GetState", n, <<>>, <<>>, r, "none")
            /\ UNCHANGED concVars

TwoReset ==
    \E n \in NodeIds :
        LET r == hlc_reset(hlcs, n)
        IN  /\ Step("Reset", n, <<>>, <<>>, r, "none")
            /\ UNCHANGED concVars

NextTwo ==
    \/ TwoZero
    \/ TwoFromDate
    \/ TwoNow
    \/ TwoIncrement
    \/ TwoMerge
    \/ TwoGetState
    \/ TwoReset

SpecTwo == InitTwo /\ [][NextTwo]_vars

\* ------------------------------------------------------------ comparisons
\* The comparison functions applied to one pair of HlcTimestamp values: `last`
\* holds the pair and what each function gave back, None until it is called.
\* The values are those hlc_parse and from_state can make: the same instants
\* written with 'Z' and with '+00:00'.
CompareInstants == {0, 90}
CompareValues ==
    {[date_time |-> Str(t, f), counter |-> c, node_id |-> n] :
        t \in CompareInstants, f \in {"Z", "+00:00"}, c \in {0, 1}, n \in NodeIds}

InitCompare ==
    /\ hlcs = << >>
    /\ last \in {[op |-> "comparisons", left |-> a, right |-> b,
                  compare |-> <<>>, lt |-> <<>>, gt |-> <<>>, eq |-> <<>>,
                  lte |-> <<>>, gte |-> <<>>] : a, b \in CompareValues}
    /\ returned = [n \in LocalIds |-> <<>>]
    /\ run = [n \in LocalIds |-> <<>>]
    /\ pc = [t \in Threads |-> "off"]
    /\ call = [t \in Threads |-> NoArgs]
    /\ local = [t \in Threads |-> NoLocal]
    /\ calls = [t \in Threads |-> 0]
    /\ lock = <<>>

HlcCompare ==
    /\ last.compare = <<>>
    /\ last' = [last EXCEPT !.compare = <<hlc_compare(last.left, last.right)>>]
    /\ UNCHANGED <<hlcs, returned, run, concVars>>

HlcLt ==
    /\ last.lt = <<>>
    /\ last' = [last EXCEPT !.lt = <<hlc_lt(last.left, last.right)>>]
    /\ UNCHANGED <<hlcs, returned, run, concVars>>

HlcGt ==
    /\ last.gt = <<>>
    /\ last' = [last EXCEPT !.gt = <<hlc_gt(last.left, last.right)>>]
    /\ UNCHANGED <<hlcs, returned, run, concVars>>

HlcEq ==
    /\ last.eq = <<>>
    /\ last' = [last EXCEPT !.eq = <<hlc_eq(last.left, last.right)>>]
    /\ UNCHANGED <<hlcs, returned, run, concVars>>

HlcLte ==
    /\ last.lte = <<>>
    /\ last' = [last EXCEPT !.lte = <<hlc_lte(last.left, last.right)>>]
    /\ UNCHANGED <<hlcs, returned, run, concVars>>

HlcGte ==
    /\ last.gte = <<>>
    /\ last' = [last EXCEPT !.gte = <<hlc_gte(last.left, last.right)>>]
    /\ UNCHANGED <<hlcs, returned, run, concVars>>

NextCompare ==
    \/ HlcCompare
    \/ HlcLt
    \/ HlcGt
    \/ HlcEq
    \/ HlcLte
    \/ HlcGte

SpecCompare == InitCompare /\ [][NextCompare]_vars

\* ------------------------------------------------------------ text calls
\* hlc_to_string applied to a value and hlc_parse to a string: `last` holds the
\* value (None when the run starts from a string), the string (None until it is
\* formatted) and what hlc_parse made of the string (None until it is called).
TextCounters == {0, 26, MAX_COUNTER}
TextValues ==
    {[date_time |-> d, counter |-> c, node_id |-> n] :
        d \in TextDates, c \in TextCounters, n \in TextNodeIds}
TextStrings ==
    { <<"2024", "01", "15T10:30:00.123Z", "001A", "node", "alpha">>,
      <<"1970", "01", "01T00:00:00Z", "0000", "n1">>,
      <<"1970", "01", "01T00:00:00Z", "10000", "n1">>,
      <<"0000", "n1">>,
      <<"n1">> }

InitText ==
    /\ hlcs = << >>
    /\ last \in {[op |-> "text", t |-> <<v>>, s |-> <<>>, out |-> <<>>] :
                    v \in TextValues}
                \cup {[op |-> "text", t |-> <<>>, s |-> <<x>>, out |-> <<>>] :
                    x \in TextStrings}
    /\ returned = [n \in LocalIds |-> <<>>]
    /\ run = [n \in LocalIds |-> <<>>]
    /\ pc = [t \in Threads |-> "off"]
    /\ call = [t \in Threads |-> NoArgs]
    /\ local = [t \in Threads |-> NoLocal]
    /\ calls = [t \in Threads |-> 0]
    /\ lock = <<>>

HlcToString ==
    /\ last.t # <<>> /\ last.s = <<>>
    /\ last' = [last EXCEPT !.s = <<hlc_to_string(last.t[1])>>]
    /\ UNCHANGED <<hlcs, returned, run, concVars>>

HlcParse ==
    /\ last.s # <<>> /\ last.out = <<>>
    /\ last' = [last EXCEPT !.out = <<hlc_parse(last.s[1])>>]
    /\ UNCHANGED <<hlcs, returned, run, concVars>>

NextText ==
    \/ HlcToString
    \/ HlcParse

SpecText == InitText /\ [][NextText]_vars

\* ------------------------------------------------------------ concurrent callers
\* Each caller runs hlc_increment or hlc_merge as the code does: the mutex is
\* taken inside get_or_create_hlc_state and inside update_hlc_state and dropped
\* at the end of each; the computation between them runs on the caller's copy.
ConcInstants == {0, 90}
OneHourAhead == 60 * SecondsPerMinute
ConcWalls == {<<Str(t, "Z")>> : t \in ConcInstants}
ConcRemotes ==
    {[date_time |-> to_rfc3339(t), counter |-> c, node_id |-> "n2"] :
        t \in ConcInstants, c \in {0, 3}}

InitConc ==
    /\ hlcs = << >>
    /\ last = NoCall
    /\ returned = [n \in LocalIds |-> <<>>]
    /\ run = [n \in LocalIds |-> <<>>]
    /\ pc = [t \in Threads |-> "idle"]
    /\ call = [t \in Threads |-> NoArgs]
    /\ local = [t \in Threads |-> NoLocal]
    /\ calls = [t \in Threads |-> 0]
    /\ lock = <<>>

Begin(t, args) ==
    /\ pc[t] \in {"idle", "done"}
    /\ calls[t] < MaxCalls
    /\ pc' = [pc EXCEPT ![t] = "get_lock"]
    /\ call' = [call EXCEPT ![t] = args]
    /\ local' = [local EXCEPT ![t] = NoLocal]
    /\ calls' = [calls EXCEPT ![t] = @ + 1]

BeginIncrement ==
    \E t \in Threads, n \in NodeIds, wt \in ConcWalls :
        LET args == [op |-> "Increment", node |-> n, wall |-> wt, remote |-> <<>>]
        IN  /\ Begin(t, args)
            /\ UNCHANGED <<hlcs, lock, seqVars>>

BeginMerge ==
    \E t \in Threads, n \in NodeIds, wt \in ConcWalls, remote \in ConcRemotes :
        LET args == [op |-> "Merge", node |-> n, wall |-> wt, remote |-> <<remote>>]
        IN  /\ Begin(t, args)
            /\ UNCHANGED <<hlcs, lock, seqVars>>

\* GLOBAL_HLCS.lock() in get_or_create_hlc_state
AcquireGet ==
    \E t \in Threads :
        /\ pc[t] = "get_lock"
        /\ lock = <<>>
        /\ lock' = <<t>>
        /\ pc' = [pc EXCEPT ![t] = "get"]
        /\ UNCHANGED <<hlcs, call, local, calls, seqVars>>

\* mutant: the guard of get_or_create_hlc_state is kept after it returns
GetBody_keeps_guard ==
    \E t \in Threads :
        /\ pc[t] = "get"
        /\ lock = <<t>>
        /\ LET g == get_or_create_hlc_state(hlcs, call[t].node)
           IN  /\ hlcs' = g.hlcs
               /\ local' = [local EXCEPT ![t].state = <<g.state>>]
        /\ pc' = [pc EXCEPT ![t] = "compute"]
        /\ UNCHANGED <<lock, call, calls, seqVars>>

\* entry().or_insert_with().clone(), and the guard dropped
GetBody ==
    \E t \in Threads :
        /\ pc[t] = "get"
        /\ lock = <<t>>
        /\ LET g == get_or_create_hlc_state(hlcs, call[t].node)
           IN  /\ hlcs' = g.hlcs
               /\ local' = [local EXCEPT ![t].state = <<g.state>>]
        /\ lock' = <<>>
        /\ pc' = [pc EXCEPT ![t] = "compute"]
        /\ UNCHANGED <<call, calls, seqVars>>

\* the caller's computation on its copy: an error or a no-op returns, a new
\* state goes on to update_hlc_state
Computed(t, r, write) ==
    /\ local' = [local EXCEPT ![t].status = r.status,
                              ![t].payload = r.payload,
                              ![t].new = IF write THEN <<r.state>> ELSE <<>>,
                              ![t].ts = IF r.status = "ok" /\ ~write
                                        THEN <<from_state(r.state)>> ELSE <<>>]
    /\ pc' = [pc EXCEPT ![t] = IF write THEN "put_lock" ELSE "done"]
    /\ UNCHANGED <<hlcs, lock, call, calls, seqVars>>

ComputeIncrement ==
    \E t \in Threads, oc \in BOOLEAN :
        /\ pc[t] = "compute"
        /\ call[t].op = "Increment"
        /\ LET wt == read_wall_time(call[t].wall, 0)
               r  == increment_state(local[t].state[1], wt.val, oc)
           IN  IF ~wt.ok
               THEN Computed(t, [status |-> "InvalidTimestamp", payload |-> 0,
                                 state |-> local[t].state[1]], FALSE)
               ELSE Computed(t, r, r.status = "ok")

ComputeMerge ==
    \E t \in Threads :
        /\ pc[t] = "compute"
        /\ call[t].op = "Merge"
        /\ LET wt == read_wall_time(call[t].wall, 0)
               r  == merge_state(local[t].state[1], call[t].node,
                                 call[t].remote[1], wt.val)
           IN  IF ~wt.ok
               THEN Computed(t, [status |-> "InvalidTimestamp", payload |-> 0,
                                 state |-> local[t].state[1]], FALSE)
               ELSE Computed(t, r, r.status = "ok" /\ r.write)

\* GLOBAL_HLCS.lock() in update_hlc_state
AcquirePut ==
    \E t \in Threads :
        /\ pc[t] = "put_lock"
        /\ lock = <<>>
        /\ lock' = <<t>>
        /\ pc' = [pc EXCEPT ![t] = "put"]
        /\ UNCHANGED <<hlcs, call, local, calls, seqVars>>

\* hlcs.insert(), the guard dropped, and Ok(from_state) returned
PutBody ==
    \E t \in Threads :
        /\ pc[t] = "put"
        /\ lock = <<t>>
        /\ hlcs' = update_hlc_state(hlcs, call[t].node, local[t].new[1])
        /\ local' = [local EXCEPT ![t].ts = <<from_state(local[t].new[1])>>]
        /\ lock' = <<>>
        /\ pc' = [pc EXCEPT ![t] = "done"]
        /\ UNCHANGED <<call, calls, seqVars>>

NextConc ==
    \/ BeginIncrement
    \/ BeginMerge
    \/ AcquireGet
    \/ GetBody
    \/ ComputeIncrement
    \/ ComputeMerge
    \/ AcquirePut
    \/ PutBody

SpecConc == InitConc /\ [][NextConc]_vars

\* ------------------------------------------------------------ every operation
\* Each caller invokes one operation, any of them, and runs it as the code
\* does. Zero, FromDate and Now build their state and go to update_hlc_state;
\* GetState goes through get_or_create_hlc_state; Reset takes the mutex
\* itself; the *_simple wrappers run hlc_increment / hlc_merge and, on an Err,
\* hlc_now. Utc::now() reads the epoch.
LiveNodes == {"n1"}
LiveDates == {Str(OneHourAhead, "Z"), BadStr}
LiveRemotes ==
    {[date_time |-> to_rfc3339(t), counter |-> c, node_id |-> "n2"] :
        t \in {0, OneHourAhead}, c \in {0, MAX_COUNTER}}

\* The callers find the store empty, or as hlc_from_date left it an hour ahead,
\* or as a Merge of counter MAX_COUNTER left it.
LiveStores ==
    {<< >>} \cup
    {[n \in {"n1"} |-> [date_time |-> t, counter |-> c, node_id |-> "n1"]] :
        t \in {0, OneHourAhead}, c \in {0, MAX_COUNTER}}

InitLive ==
    /\ hlcs \in LiveStores
    /\ last = NoCall
    /\ returned = [n \in LocalIds |-> <<>>]
    /\ run = [n \in LocalIds |-> <<>>]
    /\ pc = [t \in Threads |-> "idle"]
    /\ call = [t \in Threads |-> NoArgs]
    /\ local = [t \in Threads |-> NoLocal]
    /\ calls = [t \in Threads |-> 0]
    /\ lock = <<>>

\* the caller's locals on entry to update_hlc_state with the state it built
Built(state) == [NoLocal EXCEPT !.status = "ok", !.new = <<state>>]

Invoke(t, args, to, loc) ==
    /\ pc[t] = "idle"
    /\ pc' = [pc EXCEPT ![t] = to]
    /\ call' = [call EXCEPT ![t] = args]
    /\ local' = [local EXCEPT ![t] = loc]

BeginZero ==
    \E t \in Threads, n \in LiveNodes :
        LET args  == [op |-> "Zero", node |-> n, wall |-> <<>>, remote |-> <<>>]
            state == [date_time |-> 0, counter |-> 0, node_id |-> n]
        IN  /\ Invoke(t, args, "put_lock", Built(state))
            /\ UNCHANGED <<hlcs, lock, calls, seqVars>>

BeginFromDate ==
    \E t \in Threads, n \in LiveNodes, d \in LiveDates :
        LET args  == [op |-> "FromDate", node |-> n, wall |-> <<d>>, remote |-> <<>>]
            dt    == parse_from_rfc3339(d)
            state == [date_time |-> dt.val, counter |-> 0, node_id |-> n]
        IN  /\ IF dt.ok
               THEN Invoke(t, args, "put_lock", Built(state))
               ELSE Invoke(t, args, "done",
                           [NoLocal EXCEPT !.status = "InvalidTimestamp"])
            /\ UNCHANGED <<hlcs, lock, calls, seqVars>>

BeginNow ==
    \E t \in Threads, n \in LiveNodes :
        LET args  == [op |-> "Now", node |-> n, wall |-> <<>>, remote |-> <<>>]
            state == [date_time |-> 0, counter |-> 0, node_id |-> n]
        IN  /\ Invoke(t, args, "put_lock", Built(state))
            /\ UNCHANGED <<hlcs, lock, calls, seqVars>>

BeginGetState ==
    \E t \in Threads, n \in LiveNodes :
        LET args == [op |-> "GetState", node |-> n, wall |-> <<>>, remote |-> <<>>]
        IN  /\ Invoke(t, args, "get_lock", NoLocal)
            /\ UNCHANGED <<hlcs, lock, calls, seqVars>>

BeginReset ==
    \E t \in Threads, n \in LiveNodes :
        LET args == [op |-> "Reset", node |-> n, wall |-> <<>>, remote |-> <<>>]
        IN  /\ Invoke(t, args, "reset_lock", NoLocal)
            /\ UNCHANGED <<hlcs, lock, calls, seqVars>>

LiveBeginIncrement ==
    \E t \in Threads, n \in LiveNodes, wt \in ConcWalls :
        LET args == [op |-> "Increment", node |-> n, wall |-> wt, remote |-> <<>>]
        IN  /\ Invoke(t, args, "get_lock", NoLocal)
            /\ UNCHANGED <<hlcs, lock, calls, seqVars>>

LiveBeginMerge ==
    \E t \in Threads, n \in LiveNodes, remote \in LiveRemotes :
        LET args == [op |-> "Merge", node |-> n, wall |-> <<Str(0, "Z")>>,
                     remote |-> <<remote>>]
        IN  /\ Invoke(t, args, "get_lock", NoLocal)
            /\ UNCHANGED <<hlcs, lock, calls, seqVars>>

BeginIncrementSimple ==
    \E t \in Threads, n \in LiveNodes :
        LET args == [op |-> "IncrementSimple", node |-> n, wall |-> <<>>,
                     remote |-> <<>>]
        IN  /\ Invoke(t, args, "get_lock", NoLocal)
            /\ UNCHANGED <<hlcs, lock, calls, seqVars>>

BeginMergeSimple ==
    \E t \in Threads, n \in LiveNodes, remote \in LiveRemotes :
        LET args == [op |-> "MergeSimple", node |-> n, wall |-> <<>>,
                     remote |-> <<remote>>]
        IN  /\ Invoke(t, args, "get_lock", NoLocal)
            /\ UNCHANGED <<hlcs, lock, calls, seqVars>>

\* HlcTimestamp::from_state(&state) of hlc_get_state
ComputeGetState ==
    \E t \in Threads :
        /\ pc[t] = "compute"
        /\ call[t].op = "GetState"
        /\ Computed(t, [status |-> "ok", payload |-> 0, state |-> local[t].state[1]],
                    FALSE)

\* what hlc_now builds for the wrapper after an Err
NowState(node_id) == [date_time |-> 0, counter |-> 0, node_id |-> node_id]

ComputeIncrementSimple ==
    \E t \in Threads, oc \in BOOLEAN :
        /\ pc[t] = "compute"
        /\ call[t].op = "IncrementSimple"
        /\ LET r == increment_state(local[t].state[1], 0, oc)
           IN  IF r.status = "ok" THEN Computed(t, r, TRUE)
               ELSE IF r.status = "panic" THEN Computed(t, r, FALSE)
               ELSE Computed(t, [status |-> "ok", payload |-> 0,
                                 state |-> NowState(call[t].node)], TRUE)

ComputeMergeSimple ==
    \E t \in Threads :
        /\ pc[t] = "compute"
        /\ call[t].op = "MergeSimple"
        /\ LET r == merge_state(local[t].state[1], call[t].node,
                                call[t].remote[1], 0)
           IN  IF r.status = "ok" THEN Computed(t, r, r.write)
               ELSE Computed(t, [status |-> "ok", payload |-> 0,
                                 state |-> NowState(call[t].node)], TRUE)

\* GLOBAL_HLCS.lock() in hlc_reset
AcquireReset ==
    \E t \in Threads :
        /\ pc[t] = "reset_lock"
        /\ lock = <<>>
        /\ lock' = <<t>>
        /\ pc' = [pc EXCEPT ![t] = "reset"]
        /\ UNCHANGED <<hlcs, call, local, calls, seqVars>>

\* hlcs.remove(), and the guard dropped
ResetBody ==
    \E t \in Threads :
        /\ pc[t] = "reset"
        /\ lock = <<t>>
        /\ hlcs' = remove(hlcs, call[t].node)
        /\ local' = [local EXCEPT ![t].status = "ok"]
        /\ lock' = <<>>
        /\ pc' = [pc EXCEPT ![t] = "done"]
        /\ UNCHANGED <<call, calls, seqVars>>

NextLive ==
    \/ BeginZero
    \/ BeginFromDate
    \/ BeginNow
    \/ BeginGetState
    \/ BeginReset
    \/ LiveBeginIncrement
    \/ LiveBeginMerge
    \/ BeginIncrementSimple
    \/ BeginMergeSimple
    \/ AcquireGet
    \/ GetBody
    \/ ComputeIncrement
    \/ ComputeMerge
    \/ ComputeGetState
    \/ ComputeIncrementSimple
    \/ ComputeMergeSimple
    \/ AcquirePut
    \/ PutBody
    \/ AcquireReset
    \/ ResetBody

\* A caller that can take its next step takes it; nobody is made to call.
FairLive ==
    /\ WF_vars(AcquireGet)
    /\ WF_vars(GetBody)
    /\ WF_vars(ComputeIncrement)
    /\ WF_vars(ComputeMerge)
    /\ WF_vars(ComputeGetState)
    /\ WF_vars(ComputeIncrementSimple)
    /\ WF_vars(ComputeMergeSimple)
    /\ WF_vars(AcquirePut)
    /\ WF_vars(PutBody)
    /\ WF_vars(AcquireReset)
    /\ WF_vars(ResetBody)

SpecLive == InitLive /\ [][NextLive]_vars /\ FairLive


\* ------------------------------------------------------------ claims
\* The state a call found: the entry of its node, or the zero state that
\* get_or_create_hlc_state makes of a missing one.
PreState == IF last.pre = <<>> THEN HlcState_new(last.node) ELSE last.pre[1]
\* The state of the node after the call, read the same way.
PostState ==
    IF last.node \in DOMAIN hlcs THEN hlcs[last.node] ELSE HlcState_new(last.node)
OneMinute == MAX_DRIFT_MINUTES * SecondsPerMinute
OneHour == 60 * SecondsPerMinute
\* the call ran with an observed wall time (given and well formed, or read)
HasWall == last.wall # <<>>
W == last.wall[1]
RemoteTime == last.remote[1].date_time.inst
RemoteCounter == last.remote[1].counter
\* remote <= local by wall time, then counter
RemoteDominated ==
    \/ RemoteTime < PreState.date_time
    \/ (RemoteTime = PreState.date_time /\ RemoteCounter <= PreState.counter)
Unchanged ==
    /\ PostState.date_time = PreState.date_time
    /\ PostState.counter = PreState.counter
Max(a, b) == IF a > b THEN a ELSE b

\* C1 (as claimed): without a Reset in between, every timestamp returned for a
\* node by Zero, FromDate, Now, Increment, Merge, GetState or the *_simple
\* wrappers is >= the one returned for it before (wall time, counter, node id).
C1_MonotonicReturns ==
    (last.op \in {"Zero", "FromDate", "Now", "Increment", "Merge", "GetState",
                  "IncrementSimple", "MergeSimple"}
        /\ last.ts # <<>> /\ last.prevRet # <<>>)
    => cmp(last.prevRet[1], last.ts[1]) <= 0

\* What a call gives when it runs alone on store h.
Alone(h, c) ==
    IF c.op = "Increment"
    THEN hlc_increment(h, c.node, c.wall, 0, FALSE)
    ELSE hlc_merge(h, c.node, c.remote[1], c.wall, 0)
\* The two callers' calls, run one after the other from the empty store, end
\* in the store and the results seen.
SerialOrder(a, b) ==
    LET r1 == Alone(<< >>, call[a])
        r2 == Alone(r1.hlcs, call[b])
    IN  /\ hlcs = r2.hlcs
        /\ local[a].status = r1.status /\ local[a].ts = r1.ts
        /\ local[b].status = r2.status /\ local[b].ts = r2.ts
BothDone == \A t \in Threads : pc[t] = "done" /\ calls[t] = 1

\* C2 (as claimed): when the two callers have each finished one Increment or
\* Merge, the stored state and the returned timestamps are those of one of the
\* two serial orders of the calls; two successful Increments on one node with
\* the same observed wall time return different timestamps.
C2_SerialEquivalence ==
    BothDone =>
        /\ SerialOrder("t1", "t2") \/ SerialOrder("t2", "t1")
        /\ (call["t1"] = call["t2"] /\ call["t1"].op = "Increment"
                /\ local["t1"].status = "ok" /\ local["t2"].status = "ok")
            => local["t1"].ts # local["t2"].ts


\* C3: a successful Increment that directly follows a successful Increment on
\* the same node, with an observed wall time not earlier than that one's,
\* returns a timestamp strictly greater than the one that Increment returned.
C3_StrictIncrements ==
    (last.op = "Increment" /\ last.status = "ok" /\ last.prevRun # <<>>
        /\ W >= last.prevRun[1])
    => cmp(last.prevRet[1], last.ts[1]) < 0

C3_Witness ==
    /\ last.op = "Increment" /\ last.status = "ok" /\ last.prevRun # <<>>
    /\ W >= last.prevRun[1]
    /\ last.prevRet[1].counter = 1
    /\ last.ts[1].counter = 2
    /\ last.ts[1].date_time = last.prevRet[1].date_time

\* C4 (as claimed): with new_time = max(state.wall_time, w), Increment fails
\* with ClockDrift whenever new_time - w is more than 1 minute and not when it
\* is at most 1 minute; after a successful Increment the stored wall time is at
\* most 1 minute ahead of w.
C4_IncrementDriftBound ==
    (last.op = "Increment" /\ HasWall)
    => LET new_time == Max(PreState.date_time, W)
       IN  /\ (new_time - W > OneMinute) => last.status = "ClockDrift"
           /\ (new_time - W <= OneMinute) => last.status # "ClockDrift"
           /\ last.status = "ok" => PostState.date_time - W <= OneMinute

\* C5 (as claimed): Increment with w one hour later than the state's wall time
\* fails with ClockDrift and does not advance the state to w.
C5_FarAheadFails ==
    (last.op = "Increment" /\ HasWall /\ W = PreState.date_time + OneHour)
    => (last.status = "ClockDrift" /\ Unchanged)

\* C5 (amended): Increment with w one hour later than the state's wall time
\* succeeds: it stores and returns (w, 0) under the node's id.
C5_FarAheadAdvances ==
    (last.op = "Increment" /\ HasWall /\ W = PreState.date_time + OneHour)
    => /\ last.status = "ok"
       /\ PostState = [date_time |-> W, counter |-> 0, node_id |-> last.node]
       /\ last.ts = <<from_state(PostState)>>

C5_Witness ==
    /\ last.op = "Increment" /\ HasWall /\ W = PreState.date_time + OneHour
    /\ last.pre # <<>> /\ PreState.counter > 0
    /\ last.status = "ok"

\* C6 (as claimed): Merge with remote.node_id = local_node_id fails with
\* DuplicateNode, whatever the local state, the remote's time and counter, and w.
C6_OwnIdentityRejected ==
    (last.op = "Merge" /\ HasWall /\ last.remote[1].node_id = last.node)
    => last.status = "DuplicateNode"

\* C6 (amended): Merge with remote.node_id = local_node_id fails with
\* DuplicateNode, leaving the state as it was, when the remote is not dominated
\* by the local state (remote later, or as late with a greater counter); a
\* dominated remote under the node's own id is answered without error.
C6_OwnIdentityRejectedUnlessDominated ==
    (last.op = "Merge" /\ HasWall /\ last.remote[1].node_id = last.node)
    => IF RemoteDominated
       THEN last.status = "ok"
       ELSE last.status = "DuplicateNode" /\ Unchanged

C6_Witness ==
    /\ last.op = "Merge" /\ HasWall /\ last.remote[1].node_id = last.node
    /\ ~RemoteDominated
    /\ RemoteTime - W > 2 * OneMinute
    /\ last.status = "DuplicateNode"

\* C7: Merge with a remote that the local state dominates (remote earlier, or as
\* late with a counter not greater) returns the local timestamp without error
\* and leaves wall time and counter as they were, whatever the observed wall
\* time and the remote's node id; the same Merge again returns the same value.
C7_DominatedNoOp ==
    (last.op = "Merge" /\ HasWall /\ RemoteDominated)
    => /\ last.status = "ok"
       /\ last.ts = <<from_state(PreState)>>
       /\ Unchanged
       /\ hlc_merge(hlcs, last.node, last.remote[1], <<>>, W).ts = last.ts

C7_Witness ==
    /\ last.op = "Merge" /\ HasWall /\ RemoteDominated
    /\ last.remote[1].node_id = last.node
    /\ RemoteTime = PreState.date_time /\ RemoteCounter = PreState.counter
    /\ PreState.counter > 0
    /\ last.status = "ok"

\* C8: after a successful Merge that is not a no-op, the stored state and the
\* returned timestamp have the remote's wall time and counter and the local
\* node id.
C8_AdoptKeepsIdentity ==
    (last.op = "Merge" /\ last.status = "ok" /\ ~RemoteDominated)
    => /\ PostState = [date_time |-> RemoteTime, counter |-> RemoteCounter,
                       node_id |-> last.node]
       /\ last.node \in DOMAIN hlcs
       /\ parse_from_rfc3339(last.ts[1].date_time) = Ok(RemoteTime)
       /\ last.ts[1].counter = RemoteCounter
       /\ last.ts[1].node_id = last.node

\* local {t, 0, n1}, remote {t + 90 s, 3, n2}, w = t + 90 s
C8_Witness ==
    /\ last.op = "Merge" /\ last.status = "ok"
    /\ last.pre = <<[date_time |-> 0, counter |-> 0, node_id |-> "n1"]>>
    /\ last.remote = <<[date_time |-> to_rfc3339(90), counter |-> 3, node_id |-> "n2"]>>
    /\ last.wall = <<90>>
    /\ last.ts = <<[date_time |-> to_rfc3339(90), counter |-> 3, node_id |-> "n1"]>>

\* C9 (as claimed): for a non-dominated remote of another node, Merge fails with
\* ClockDrift whenever remote.wall_time - w is more than 1 minute, so a
\* successful Merge never adopts a wall time more than 1 minute ahead of w.
C9_MergeDriftBound ==
    (last.op = "Merge" /\ HasWall /\ ~RemoteDominated
        /\ last.remote[1].node_id # last.node)
    => /\ (RemoteTime - W > OneMinute) => last.status = "ClockDrift"
       /\ last.status = "ok" => PostState.date_time - W <= OneMinute

\* C10 (as claimed): every stored state and every timestamp returned by Zero,
\* FromDate, Now, Increment or Merge has its counter in 0..0xFFFF.
C10_CounterRange ==
    /\ \A n \in DOMAIN hlcs : hlcs[n].counter \in 0..MAX_COUNTER
    /\ (last.op \in {"Zero", "FromDate", "Now", "Increment", "Merge"}
            /\ last.ts # <<>>)
        => last.ts[1].counter \in 0..MAX_COUNTER

\* What GetState would give back for a node of store h.
View(h, node_id) == hlc_get_state(h, node_id).ts
\* The entries of the nodes other than the one the last call named are the
\* ones the call found.
OthersUntouched ==
    \A m \in NodeIds \ {last.node} : Entry(hlcs, m) = Entry(last.before, m)

\* C11: after Increment, Merge or FromDate fails (ClockDrift, CounterOverflow,
\* DuplicateNode or an unparseable wall time), GetState gives for the node what
\* it would have given before the call, and no other node's entry has changed.
C11_NoPartialMutation ==
    (last.op \in {"Increment", "Merge", "FromDate"} /\ last.status # "ok")
    => /\ View(hlcs, last.node) = View(last.before, last.node)
       /\ OthersUntouched

\* Increment of n1 fails with CounterOverflow while n2 holds a state of its own
C11_Witness ==
    /\ last.op = "Increment" /\ last.status = "Overflow"
    /\ last.node = "n1"
    /\ "n2" \in DOMAIN hlcs
    /\ hlcs["n2"].date_time = OneHour

\* C20: a call that names node id A leaves the entry of every other node id
\* as it found it, also when the remote of a Merge carries that other id, and
\* every entry stored under a key carries that key as its node_id.
C20_NodeIsolation ==
    /\ last.op # "none" => OthersUntouched
    /\ \A k \in DOMAIN hlcs : hlcs[k].node_id = k

\* Merge into n1 adopts a remote of n2 while n2 holds a different state
C20_Witness ==
    /\ last.op = "Merge" /\ last.status = "ok" /\ last.node = "n1"
    /\ last.remote # <<>> /\ last.remote[1].node_id = "n2"
    /\ ~RemoteDominated
    /\ "n2" \in DOMAIN hlcs
    /\ hlcs["n2"].date_time # hlcs["n1"].date_time

\* C12 (as claimed): for every pair a, b, the 'Z' and '+00:00' writings of one
\* instant included, exactly one of hlc_lt(a, b), hlc_eq(a, b), hlc_gt(a, b) is
\* true, and hlc_eq(a, b) is true exactly when hlc_compare(a, b) is 0.
C12_Trichotomy ==
    (last.lt # <<>> /\ last.eq # <<>> /\ last.gt # <<>> /\ last.compare # <<>>)
    => /\ \/ (last.lt[1] /\ ~last.eq[1] /\ ~last.gt[1])
          \/ (~last.lt[1] /\ last.eq[1] /\ ~last.gt[1])
          \/ (~last.lt[1] /\ ~last.eq[1] /\ last.gt[1])
       /\ last.eq[1] <=> (last.compare[1] = 0)

\* C13 (as claimed): for every valid timestamp value t, a node id containing
\* '-' included, parsing the canonical string of t gives back t.
C13_RoundTrip ==
    (last.t # <<>> /\ last.out # <<>>)
    => /\ last.out[1].ok
       /\ last.out[1].val = last.t[1]

\* C14 (as claimed): 2024-01-15T10:30:00.123Z-001A-node-alpha parses to wall
\* time 2024-01-15T10:30:00.123Z, counter 0x001A and node id node-alpha.
C14_ParseExample ==
    (last.s = << <<"2024", "01", "15T10:30:00.123Z", "001A", "node", "alpha">> >>
        /\ last.out # <<>>)
    => /\ last.out[1].ok
       /\ last.out[1].val = [date_time |-> Str(ExampleInstant, ".123Z"),
                             counter |-> 26, node_id |-> "node-alpha"]

\* C15 (as claimed): Zero("n1"), whatever the state before it, returns the value
\* {1970-01-01T00:00:00Z, 0, "n1"}, and the canonical string of that value is
\* exactly 1970-01-01T00:00:00Z-0000-n1.
C15_ZeroCanonical ==
    (last.op = "Zero" /\ last.node = "n1")
    => /\ last.status = "ok" /\ last.ts # <<>>
       /\ parse_from_rfc3339(last.ts[1].date_time) = Ok(0)
       /\ last.ts[1].counter = 0
       /\ last.ts[1].node_id = "n1"
       /\ hlc_to_string(last.ts[1]) = <<"1970", "01", "01T00:00:00Z", "0000", "n1">>

\* C16 (as claimed): an Increment that raises no drift or overflow error stores
\* and returns (wall, c + 1) when w <= wall and (w, 0) when w > wall, for every
\* state (wall, c); a second Increment with the same w, equal to the state's
\* wall time, returns the counter of the first plus one and the same wall time.
C16_IncrementTransition ==
    (last.op = "Increment" /\ HasWall /\ last.status = "ok")
    => /\ last.ts = <<from_state(PostState)>>
       /\ IF W <= PreState.date_time
          THEN /\ PostState.date_time = PreState.date_time
               /\ PreState.counter # I32Max
               /\ PostState.counter = PreState.counter + 1
          ELSE /\ PostState.date_time = W
               /\ PostState.counter = 0
       /\ (last.prevRun = <<W>> /\ W = PreState.date_time /\ last.prevRet # <<>>)
          => /\ last.prevRet[1].counter # I32Max
             /\ last.ts[1].counter = last.prevRet[1].counter + 1
             /\ last.ts[1].date_time = last.prevRet[1].date_time

\* C17: an Increment of a node whose counter is 0xFFFF, with w not later than
\* the state's wall time and no ClockDrift raised, fails with CounterOverflow
\* carrying 0x10000 and leaves the stored counter at 0xFFFF; and no Increment
\* that changes the stored state leaves a counter above 0xFFFF in it.
C17_CounterOverflow ==
    /\ (last.op = "Increment" /\ HasWall /\ PreState.counter = MAX_COUNTER
            /\ W <= PreState.date_time /\ last.status # "ClockDrift")
        => /\ last.status = "Overflow"
           /\ last.payload = MAX_COUNTER + 1
           /\ Unchanged
           /\ PostState.counter = MAX_COUNTER
    /\ (last.op = "Increment" /\ ~Unchanged)
        => PostState.counter <= MAX_COUNTER

\* state (1 h, 0xFFFF) and w = 1 h: CounterOverflow with 0x10000
C17_Witness ==
    /\ last.op = "Increment" /\ last.status = "Overflow"
    /\ last.wall = <<OneHour>>
    /\ last.pre = <<[date_time |-> OneHour, counter |-> MAX_COUNTER, node_id |-> "n1"]>>
    /\ last.payload = MAX_COUNTER + 1
    /\ hlcs["n1"].counter = MAX_COUNTER

\* (wall_time, counter) of a is not above that of b
PairLeq(a, b) ==
    \/ a.date_time < b.date_time
    \/ (a.date_time = b.date_time /\ a.counter <= b.counter)

\* C19 (as claimed): an Increment, Merge or GetState call, successful or
\* failing, never leaves the node's stored (wall_time, counter) pair below the
\* one it found, and a successful Merge of a remote that is not dominated
\* leaves it strictly above.
C19_NeverBackward ==
    last.op \in {"Increment", "Merge", "GetState"}
    => /\ PairLeq(PreState, PostState)
       /\ (last.op = "Merge" /\ last.status = "ok" /\ HasWall /\ ~RemoteDominated)
          => ~PairLeq(PostState, PreState)

\* a caller is inside an operation it invoked
Running(t) == pc[t] \notin {"idle", "done"}
\* a caller asks for the mutex only when it does not hold it, and whoever
\* holds it is in the body that ends by dropping the guard
LockDiscipline ==
    \A t \in Threads :
        /\ pc[t] \in {"get_lock", "put_lock", "reset_lock"} => lock # <<t>>
        /\ lock = <<t>> => pc[t] \in {"get", "put", "reset"}

\* C18: with concurrent callers of any of the operations, Reset and the
\* *_simple wrappers included, and fair scheduling, every invoked operation
\* returns; the mutex is never asked for by the caller that holds it, every
\* acquisition is followed by a release, and so no caller waits forever.
C18_EveryOperationCompletes ==
    /\ []LockDiscipline
    /\ \A t \in Threads : (lock = <<t>>) ~> (lock = <<>>)
    /\ \A t \in Threads : Running(t) ~> (pc[t] = "done")

\* t1, in hlc_increment_simple, read a state one hour ahead, fell back to
\* hlc_now after the ClockDrift and waits for the mutex in update_hlc_state
\* while t2 holds it in hlc_reset
C18_Witness ==
    /\ pc["t1"] = "put_lock" /\ call["t1"].op = "IncrementSimple"
    /\ local["t1"].state # <<>>
    /\ local["t1"].state[1].date_time = OneHourAhead
    /\ local["t1"].new = <<NowState("n1")>>
    /\ pc["t2"] = "reset" /\ lock = <<"t2">>

====
